---------------------------- MODULE Spec2Model ----------------------------
(***************************************************************************)
(* Model of the Cyrillic word analyser (src/truth.py, the full variant,    *)
(* and src/Truth.py, the reduced variant).                                 *)
(*                                                                         *)
(* A Python str is a sequence of Unicode code points (naturals): 1055 is   *)
(* the letter PE, 46 is '.', 32 is ' ', 48..57 are '0'..'9'.  The modelled *)
(* characters are ASCII, Latin-1 (without 181, 223, 255, whose uppercase   *)
(* leaves the range or has two characters) and the Cyrillic block          *)
(* 1024..1119.                                                             *)
(*                                                                         *)
(* A call that can raise returns a record [exc, val]: exc = "" for a       *)
(* normal return of val, otherwise the name of the exception raised.       *)
(***************************************************************************)
EXTENDS Integers, Sequences, FiniteSets, TLC

VARIABLES
    fichier,      \* which script runs: "truth.py" or "Truth.py"
    argv,         \* sys.argv[1:], a sequence of strings
    pc,           \* control point of the running script
    entree,       \* local `entree` of main / interface_interactive
    results,      \* local `results` (a [exc, val] record, val the dict)
    voie,         \* branch of the sequence test taken: "sequence", "mot", "aucune"
    sortie,       \* kinds of the lines printed by the current run / iteration
    exception,    \* exception raised in the current run / iteration ("" if none)
    code_sortie,  \* process exit status, -1 while the process runs
    precedent,    \* results of the previously analysed word (codec harness)
    nombre,       \* the integer handed to the numeric functions
    retours       \* return values of the numeric functions called directly

vars == << fichier, argv, pc, entree, results, voie, sortie, exception,
           code_sortie, precedent, nombre, retours >>

(***************************************************************************)
(* Bounds of the model.                                                    *)
(***************************************************************************)
MaxMot == 3        \* longest freely generated word of the codec harness
MaxEntree == 3     \* longest freely generated input line of the program
MaxNombre == 150   \* largest integer handed to the numeric functions
MaxNegatif == 3    \* integers down to -MaxNegatif are handed to them too
MaxCount == 3      \* find_previous_primes is asked for 0..MaxCount primes
MaxHaut == 258     \* colour entries are computed up to (MaxHaut + 1) * 65536 - 1

Ok(v) == [exc |-> "", val |-> v]
Raise(e) == [exc |-> e, val |-> << >>]

(***************************************************************************)
(* Python built-ins on str, as the code uses them.                         *)
(***************************************************************************)
\* one character of str.upper()
upper_char(c) ==
    IF c \in 97..122 \/ (c \in 224..254 /\ c # 247) \/ c \in 1072..1103
    THEN c - 32
    ELSE IF c \in 1104..1119 THEN c - 80 ELSE c

upper(s) == [i \in 1..Len(s) |-> upper_char(s[i])]

\* one character of str.lower()
lower_char(c) ==
    IF c \in 65..90 \/ (c \in 192..222 /\ c # 215) \/ c \in 1040..1071
    THEN c + 32
    ELSE IF c \in 1024..1039 THEN c + 80 ELSE c

lower(s) == [i \in 1..Len(s) |-> lower_char(s[i])]

\* str.isspace() of one character
isspace(c) == c \in (9..13) \cup (28..32) \cup {133, 160}

\* str.isalpha() of one character
isalpha(c) ==
    \/ c \in (65..90) \cup (97..122)
    \/ c \in {170, 186}
    \/ c \in (192..254) \ {215, 247}
    \/ c \in 1024..1119

\* one character of str.isdigit(): the decimal digits and the superscripts
isdigit_char(c) == c \in (48..57) \cup {178, 179, 185}

\* str.isdigit(): non-empty and made of digit characters
isdigit(s) == Len(s) > 0 /\ \A i \in 1..Len(s) : isdigit_char(s[i])

RECURSIVE lstrip(_)
lstrip(s) == IF s # << >> /\ isspace(Head(s)) THEN lstrip(Tail(s)) ELSE s

RECURSIVE rstrip(_)
rstrip(s) ==
    IF s # << >> /\ isspace(s[Len(s)])
    THEN rstrip(SubSeq(s, 1, Len(s) - 1))
    ELSE s

\* str.strip()
strip(s) == rstrip(lstrip(s))

\* s.replace(' ', '')
RECURSIVE replace_space(_)
replace_space(s) ==
    IF s = << >> THEN << >>
    ELSE IF Head(s) = 32 THEN replace_space(Tail(s))
    ELSE << Head(s) >> \o replace_space(Tail(s))

\* s[::-1]
reversed(s) == [i \in 1..Len(s) |-> s[Len(s) + 1 - i]]

\* s.split('.'): always at least one token, empty tokens kept
RECURSIVE split(_, _)
split(s, courant) ==
    IF s = << >> THEN << courant >>
    ELSE IF Head(s) = 46 THEN << courant >> \o split(Tail(s), << >>)
    ELSE split(Tail(s), Append(courant, Head(s)))

\* '.'.join(tokens)
RECURSIVE join(_)
join(tokens) ==
    IF tokens = << >> THEN << >>
    ELSE IF Len(tokens) = 1 THEN tokens[1]
    ELSE tokens[1] \o << 46 >> \o join(Tail(tokens))

\* '.' in s
contains_dot(s) == \E i \in 1..Len(s) : s[i] = 46

\* str(n) for an int: decimal digits, '-' in front of a negative number
RECURSIVE str_nat(_)
str_nat(n) ==
    IF n < 10 THEN << 48 + n >>
    ELSE Append(str_nat(n \div 10), 48 + (n % 10))

str(n) == IF n < 0 THEN << 45 >> \o str_nat(-n) ELSE str_nat(n)

\* int(s) for an s that passed isdigit(): the superscript digits are digits
\* for isdigit() but no decimal digits, and int() raises ValueError on them
RECURSIVE int_decimal(_)
int_decimal(s) ==
    IF s = << >> THEN 0
    ELSE 10 * int_decimal(SubSeq(s, 1, Len(s) - 1)) + (s[Len(s)] - 48)

int(s) ==
    IF \A i \in 1..Len(s) : s[i] \in 48..57
    THEN Ok(int_decimal(s))
    ELSE Raise("ValueError")

(***************************************************************************)
(* The alphabet tables.                                                    *)
(***************************************************************************)
ALPHABET_CYRILLIQUE_yo_last ==
    [c \in (1040..1071) \cup {1025} |-> IF c = 1025 THEN 33 ELSE c - 1039]

ALPHABET_CYRILLIQUE ==
    1040 :> 1 @@ 1041 :> 2 @@ 1042 :> 3 @@ 1043 :> 4 @@ 1044 :> 5 @@
    1045 :> 6 @@ 1025 :> 7 @@ 1046 :> 8 @@ 1047 :> 9 @@ 1048 :> 10 @@
    1049 :> 11 @@ 1050 :> 12 @@ 1051 :> 13 @@ 1052 :> 14 @@ 1053 :> 15 @@
    1054 :> 16 @@ 1055 :> 17 @@ 1056 :> 18 @@ 1057 :> 19 @@ 1058 :> 20 @@
    1059 :> 21 @@ 1060 :> 22 @@ 1061 :> 23 @@ 1062 :> 24 @@ 1063 :> 25 @@
    1064 :> 26 @@ 1065 :> 27 @@ 1066 :> 28 @@ 1067 :> 29 @@ 1068 :> 30 @@
    1069 :> 31 @@ 1070 :> 32 @@ 1071 :> 33

\* {v: k for k, v in ALPHABET_CYRILLIQUE.items()}
ALPHABET_INVERSE ==
    [v \in {ALPHABET_CYRILLIQUE[k] : k \in DOMAIN ALPHABET_CYRILLIQUE} |->
        CHOOSE k \in DOMAIN ALPHABET_CYRILLIQUE : ALPHABET_CYRILLIQUE[k] = v]


(***************************************************************************)
(* Alphabet codec.                                                         *)
(***************************************************************************)
\* the loop of encoder_mot_cyrillique: one token per kept letter
RECURSIVE encoder_boucle(_)
encoder_boucle(mot) ==
    IF mot = << >> THEN << >>
    ELSE LET lettre == Head(mot) IN
         IF lettre \in DOMAIN ALPHABET_CYRILLIQUE
         THEN << str(ALPHABET_CYRILLIQUE[lettre]) >> \o encoder_boucle(Tail(mot))
         ELSE IF isalpha(lettre)
         THEN << str(lettre - 65 + 1) >> \o encoder_boucle(Tail(mot))
         ELSE encoder_boucle(Tail(mot))

encoder_sans_upper(mot) == join(encoder_boucle(strip(mot)))

encoder_mot_cyrillique(mot) == join(encoder_boucle(strip(upper(mot))))

\* the loop of decoder_sequence_cyrillique over the tokens; int() may raise
RECURSIVE decoder_boucle(_)
decoder_boucle(nombres) ==
    IF nombres = << >> THEN Ok(<< >>)
    ELSE LET nombre_ == Head(nombres) IN
         IF ~isdigit(nombre_) THEN decoder_boucle(Tail(nombres))
         ELSE LET numero == int(nombre_) IN
              IF numero.exc # "" THEN Raise(numero.exc)
              ELSE LET suite == decoder_boucle(Tail(nombres)) IN
                   IF suite.exc # "" THEN suite
                   ELSE IF 1 <= numero.val /\ numero.val <= 33
                   THEN Ok(<< ALPHABET_INVERSE[numero.val] >> \o suite.val)
                   ELSE IF 1 <= numero.val /\ numero.val <= 26
                   THEN Ok(<< numero.val + 65 - 1 >> \o suite.val)
                   ELSE suite

decoder_sequence_cyrillique(sequence) == decoder_boucle(split(sequence, << >>))

RECURSIVE somme_codes(_)
somme_codes(mot) ==
    IF mot = << >> THEN 0
    ELSE (IF Head(mot) \in DOMAIN ALPHABET_CYRILLIQUE
          THEN ALPHABET_CYRILLIQUE[Head(mot)] ELSE 0) + somme_codes(Tail(mot))

mot_vers_nombre_sans_upper(mot) == somme_codes(strip(mot))

mot_vers_nombre(mot) == somme_codes(strip(upper(mot)))

\* sequence_vers_nombre is defined by the scripts and never called

(***************************************************************************)
(* Text property inspector.                                                *)
(***************************************************************************)
est_palindrome_sans_replace(mot) == upper(mot) = reversed(upper(mot))

est_palindrome(mot) ==
    LET m == replace_space(upper(mot)) IN m = reversed(m)

\* sum(1 for lettre in mot.upper() if lettre in ensemble)
compter(mot, ensemble) ==
    Cardinality({i \in 1..Len(mot) : upper_char(mot[i]) \in ensemble})

\* 'АЕЁИОУЫЭЮЯ'
compter_voyelles_cyrilliques(mot) ==
    compter(mot, {1040, 1045, 1025, 1048, 1054, 1059, 1067, 1069, 1070, 1071})

\* 'БВГДЖЗЙКЛМНПРСТФХЦЧШЩ'
compter_consonnes_cyrilliques(mot) ==
    compter(mot, {1041, 1042, 1043, 1044, 1046, 1047, 1049, 1050, 1051, 1052,
                  1053, 1055, 1056, 1057, 1058, 1060, 1061, 1062, 1063, 1064,
                  1065})

\* ''.join(sorted(S)) for a set S of characters
RECURSIVE sorted(_)
sorted(S) ==
    IF S = {} THEN << >>
    ELSE LET m == CHOOSE x \in S : \A y \in S : x <= y
         IN << m >> \o sorted(S \ {m})

lettres_uniques(mot) == sorted({upper_char(mot[i]) : i \in 1..Len(mot)})

(***************************************************************************)
(* Numeric analyser: number theory.                                        *)
(***************************************************************************)
\* largest r in bas..haut with r*r <= x (bas*bas <= x < (haut+1)*(haut+1))
RECURSIVE racine_entre(_, _, _)
racine_entre(x, bas, haut) ==
    IF bas >= haut THEN bas
    ELSE LET milieu == (bas + haut + 1) \div 2 IN
         IF milieu * milieu <= x
         THEN racine_entre(x, milieu, haut)
         ELSE racine_entre(x, bas, milieu - 1)

\* an upper limit of the square root of x whose square fits the checker's
\* 32-bit integers
plafond(x) == IF x \div 2 + 1 > 46340 THEN 46340 ELSE x \div 2 + 1

\* math.isqrt(x): ValueError for a negative argument
math_isqrt(x) ==
    IF x < 0 THEN Raise("ValueError") ELSE Ok(racine_entre(x, 0, plafond(x)))

\* int(math.sqrt(n)) for n >= 0: the float square root is exact enough below
\* 2^52 for its truncation to be the integer square root
int_math_sqrt(n) == racine_entre(n, 0, plafond(n))

\* the loops of factorize: trial division by d, d+1, ...
RECURSIVE factorize_boucle(_, _, _)
factorize_boucle(n, d, factors) ==
    IF d * d <= n
    THEN IF n % d = 0
         THEN factorize_boucle(n \div d, d, Append(factors, d))
         ELSE factorize_boucle(n, d + 1, factors)
    ELSE IF n > 1 THEN Append(factors, n) ELSE factors

\* the inner while of factorize read as an if
RECURSIVE factorize_boucle_si(_, _, _)
factorize_boucle_si(n, d, factors) ==
    IF d * d <= n
    THEN IF n % d = 0
         THEN factorize_boucle_si(n \div d, d + 1, Append(factors, d))
         ELSE factorize_boucle_si(n, d + 1, factors)
    ELSE IF n > 1 THEN Append(factors, n) ELSE factors

factorize_si(n) == IF n < 2 THEN << n >> ELSE factorize_boucle_si(n, 2, << >>)

factorize(n) == IF n < 2 THEN << n >> ELSE factorize_boucle(n, 2, << >>)

is_prime_range_court(n) ==
    IF n < 2 THEN FALSE
    ELSE \A i \in 2..(int_math_sqrt(n) - 1) : n % i # 0

is_prime(n) ==
    IF n < 2 THEN FALSE
    ELSE \A i \in 2..int_math_sqrt(n) : n % i # 0

RECURSIVE previous_primes_boucle(_, _, _)
previous_primes_boucle(primes, candidate, count) ==
    IF Len(primes) < count /\ candidate > 1
    THEN previous_primes_boucle(
             IF is_prime(candidate) THEN Append(primes, candidate) ELSE primes,
             candidate - 1, count)
    ELSE primes

find_previous_primes_depuis_n(n, count) ==
    previous_primes_boucle(<< >>, n, count)

find_previous_primes(n, count) == previous_primes_boucle(<< >>, n - 1, count)

is_fibonacci_moins_d_abord(n) ==
    IF n < 0 THEN Ok(FALSE)
    ELSE LET x == 5 * n * n
             moins == math_isqrt(x - 4)
         IN IF moins.exc # "" THEN Raise(moins.exc)
            ELSE Ok(moins.val * moins.val = x - 4
                    \/ math_isqrt(x + 4).val * math_isqrt(x + 4).val = x + 4)

\* `a or b` evaluates b only when a is false
is_fibonacci(n) ==
    IF n < 0 THEN Ok(FALSE)
    ELSE LET x == 5 * n * n
             plus == math_isqrt(x + 4)
         IN IF plus.exc # "" THEN Raise(plus.exc)
            ELSE IF plus.val * plus.val = x + 4 THEN Ok(TRUE)
            ELSE LET moins == math_isqrt(x - 4) IN
                 IF moins.exc # "" THEN Raise(moins.exc)
                 ELSE Ok(moins.val * moins.val = x - 4)

(***************************************************************************)
(* Numeric analyser: positional notation.                                  *)
(***************************************************************************)
\* the digits of n >= 0 in base b, lowercase letters above 9
RECURSIVE chiffres(_, _)
chiffres(n, b) ==
    LET c == n % b
        car == IF c < 10 THEN 48 + c ELSE 97 + c - 10
    IN IF n < b THEN << car >> ELSE Append(chiffres(n \div b, b), car)

\* hex(n), bin(n), oct(n): sign, prefix, digits
prefixe(n, lettre, b) ==
    (IF n < 0 THEN << 45 >> ELSE << >>) \o << 48, lettre >>
        \o chiffres(IF n < 0 THEN -n ELSE n, b)

hex(n) == prefixe(n, 120, 16)
bin(n) == prefixe(n, 98, 2)
oct(n) == prefixe(n, 111, 8)

\* s[2:]
depuis_2(s) == SubSeq(s, 3, Len(s))

\* s.zfill(6) for an s without sign
zfill(s, largeur) ==
    IF Len(s) >= largeur THEN s
    ELSE [i \in 1..(largeur - Len(s)) |-> 48] \o s

\* int(s, 16): ValueError unless s is a non-empty run of hex digits
RECURSIVE int16_valeur(_)
int16_valeur(s) ==
    IF s = << >> THEN 0
    ELSE LET c == s[Len(s)]
             v == IF c \in 48..57 THEN c - 48
                  ELSE IF c \in 65..70 THEN c - 55 ELSE c - 87
         IN 16 * int16_valeur(SubSeq(s, 1, Len(s) - 1)) + v

int16(s) ==
    IF Len(s) > 0
       /\ \A i \in 1..Len(s) : s[i] \in (48..57) \cup (65..70) \cup (97..102)
    THEN Ok(int16_valeur(s))
    ELSE Raise("ValueError")

\* s[a:b] with 0 <= a <= b, clipped to the length of s
tranche(s, a, b) ==
    SubSeq(s, a + 1, IF b < Len(s) THEN b ELSE Len(s))

hex_to_rgb(hex_str) ==
    LET h == zfill(hex_str, 6)
        r == int16(tranche(h, 0, 2))
        g == int16(tranche(h, 2, 4))
        b == int16(tranche(h, 4, 6))
    IN IF r.exc = "ValueError" \/ g.exc = "ValueError" \/ b.exc = "ValueError"
       THEN << 0, 0, 0 >>
       ELSE << r.val, g.val, b.val >>

(***************************************************************************)
(* Python ints have no width.  number_to_ipv4 is the one function that is  *)
(* asked about values at and above 2^32, so its argument is kept as two    *)
(* limbs << haut, bas >> of value haut * 65536 + bas, 0 <= bas < 65536     *)
(* (haut < 0 for a negative number).                                       *)
(***************************************************************************)
en_grand(n) == << n \div 65536, n % 65536 >>

\* a <= b
grand_le(a, b) == a[1] < b[1] \/ (a[1] = b[1] /\ a[2] <= b[2])

grand_lt(a, b) == a[1] < b[1] \/ (a[1] = b[1] /\ a[2] < b[2])

\* n >> k for k in 0..31
RECURSIVE grand_shr(_, _)
grand_shr(n, k) ==
    IF k >= 16 THEN grand_shr(en_grand(n[1]), k - 16)
    ELSE << n[1] \div (2 ^ k),
            (n[1] % (2 ^ k)) * (2 ^ (16 - k)) + n[2] \div (2 ^ k) >>

\* n & 0xFF
grand_and_ff(n) == n[2] % 256

INVALID_IPV4 ==
    << 1053, 1077, 1074, 1077, 1088, 1085, 1099, 1081, 32, 73, 80, 118, 52,
       32, 1072, 1076, 1088, 1077, 1089, 32, 40, 73, 110, 118, 97, 108, 105,
       100, 32, 73, 80, 118, 52, 32, 97, 100, 100, 114, 101, 115, 115, 41 >>

number_to_ipv4_borne_stricte(n) ==
    IF grand_le(en_grand(0), n) /\ grand_lt(n, << 65535, 65535 >>)
    THEN join(<< str(grand_and_ff(grand_shr(n, 24))),
                 str(grand_and_ff(grand_shr(n, 16))),
                 str(grand_and_ff(grand_shr(n, 8))),
                 str(grand_and_ff(n)) >>)
    ELSE INVALID_IPV4

\* 0xFFFFFFFF is << 65535, 65535 >>
number_to_ipv4(n) ==
    IF grand_le(en_grand(0), n) /\ grand_le(n, << 65535, 65535 >>)
    THEN join(<< str(grand_and_ff(grand_shr(n, 24))),
                 str(grand_and_ff(grand_shr(n, 16))),
                 str(grand_and_ff(grand_shr(n, 8))),
                 str(grand_and_ff(n)) >>)
    ELSE INVALID_IPV4

(***************************************************************************)
(* analyser_nombre.  The report's float, digest, date and cardinal-name    *)
(* entries (english_words, divided_by_2, log10, natural_log, square_root,  *)
(* cube_root, the trigonometry, md5, crc32, sha256, sha1, base64,          *)
(* unix_time) are left out: no integer or string property rests on them.   *)
(***************************************************************************)
RECURSIVE somme_chiffres(_)
somme_chiffres(s) ==
    IF s = << >> THEN 0 ELSE (Head(s) - 48) + somme_chiffres(Tail(s))

\* "Нечетное (Odd)", "Четное (Even)", "Odd", "Even"
parity_bilingue(n) ==
    IF n % 2 # 0
    THEN << 1053, 1077, 1095, 1077, 1090, 1085, 1086, 1077, 32, 40, 79, 100,
            100, 41 >>
    ELSE << 1063, 1077, 1090, 1085, 1086, 1077, 32, 40, 69, 118, 101, 110,
            41 >>

parity_simple(n) == IF n % 2 # 0 THEN << 79, 100, 100 >> ELSE << 69, 118, 101, 110 >>

\* "Простое (Prime)", "Составное (Composite)", "Prime", "Composite"
prime_status_bilingue(n) ==
    IF is_prime(n)
    THEN << 1055, 1088, 1086, 1089, 1090, 1086, 1077, 32, 40, 80, 114, 105,
            109, 101, 41 >>
    ELSE << 1057, 1086, 1089, 1090, 1072, 1074, 1085, 1086, 1077, 32, 40, 67,
            111, 109, 112, 111, 115, 105, 116, 101, 41 >>

prime_status_simple(n) ==
    IF is_prime(n) THEN << 80, 114, 105, 109, 101 >>
    ELSE << 67, 111, 109, 112, 111, 115, 105, 116, 101 >>

hexadecimal_sans_upper(n) == depuis_2(hex(n))

\* hex(nombre)[2:].upper()
hexadecimal(n) == upper(depuis_2(hex(n)))

\* the entries both scripts compute the same way
analyser_nombre_commun(n) ==
    [ decimal      |-> n,
      hexadecimal  |-> hexadecimal(n),
      binary       |-> depuis_2(bin(n)),
      octal        |-> depuis_2(oct(n)),
      factors      |-> factorize(n),
      digit_sum    |-> somme_chiffres(str(n)),
      digit_count  |-> Len(str(n)),
      square       |-> n * n,
      cube         |-> n * n * n ]

\* src/Truth.py: the entries added to the common ones
analyser_nombre_reduit(n, commun) ==
    Ok(commun @@ [ parity       |-> parity_simple(n),
                   prime_status |-> prime_status_simple(n) ])

\* src/truth.py: color_hex and rgb, from results['hexadecimal']
couleur(hexa) ==
    [ color_hex |-> << 35 >> \o zfill(hexa, 6),
      rgb       |-> hex_to_rgb(hexa) ]

\* src/truth.py: the entries added to the common ones
analyser_nombre_complet(n, commun, fib) ==
    IF fib.exc # "" THEN Raise(fib.exc)
    ELSE Ok(commun
            @@ [ parity          |-> parity_bilingue(n),
                 prime_status    |-> prime_status_bilingue(n),
                 divisible_by_8  |-> [i \in 1..8 |-> n * (i + 1)],
                 multiplied_by_2 |-> n * 2,
                 previous_primes |-> find_previous_primes(n, 8),
                 fibonacci       |-> fib.val,
                 next_number     |-> n + 1,
                 previous_number |-> n - 1,
                 c_hex           |-> << 48, 120 >> \o commun.hexadecimal,
                 delphi_hex      |-> << 36 >> \o commun.hexadecimal,
                 ipv4            |-> number_to_ipv4(en_grand(n)) ]
            @@ couleur(commun.hexadecimal))

analyser_nombre(f, n) ==
    IF f = "truth.py"
    THEN analyser_nombre_complet(n, analyser_nombre_commun(n), is_fibonacci(n))
    ELSE analyser_nombre_reduit(n, analyser_nombre_commun(n))

\* the dict analyser_mot_cyrillique returns, from the values it computed
rapport_mot(mot, sequence, valeur_mot, decode, numerique) ==
    IF decode.exc # "" THEN Raise(decode.exc)
    ELSE IF numerique.exc # "" THEN Raise(numerique.exc)
    ELSE Ok([ mot_original        |-> mot,
              mot_majuscules      |-> upper(mot),
              mot_minuscules      |-> lower(mot),
              longueur_mot        |-> Len(mot),
              sequence_cyrillique |-> sequence,
              valeur_numerique    |-> valeur_mot,
              mot_decode          |-> decode.val,
              est_palindrome      |-> est_palindrome(mot),
              nombre_voyelles     |-> compter_voyelles_cyrilliques(mot),
              nombre_consonnes    |-> compter_consonnes_cyrilliques(mot),
              lettres_uniques     |-> lettres_uniques(mot) ]
            @@ numerique.val)

decoder_et_analyser(f, mot, sequence, valeur_mot) ==
    rapport_mot(mot, sequence, valeur_mot,
                decoder_sequence_cyrillique(sequence),
                analyser_nombre(f, valeur_mot))

\* analyser_mot_cyrillique, the same in both scripts
analyser_mot_cyrillique(f, mot) ==
    decoder_et_analyser(f, mot, encoder_mot_cyrillique(mot), mot_vers_nombre(mot))

(***************************************************************************)
(* The two entry points.  A printed block is recorded by its kind:         *)
(* "usage", "banniere", "decodee" (the decoded-sequence line), "resume",   *)
(* "rapport" (afficher_resultats), "table" (afficher_table_cyrillique),    *)
(* "erreur" (the one line of an except Exception handler), "adieu".        *)
(*                                                                         *)
(* faute is what the environment does to the run: "" nothing,              *)
(* "MemoryError" an unanticipated runtime failure (an Exception) while     *)
(* analysing, "rendu" an OSError while the report is printed,              *)
(* "KeyboardInterrupt" the user's interrupt.                               *)
(***************************************************************************)
Aucun == [exc |-> "non_defini", val |-> << >>]

QUIT == << 113, 117, 105, 116 >>
TABLE == << 116, 97, 98, 108, 101 >>

\* the answers that show the full report: д, да, y, yes / o, oui, y, yes
reponses_oui(f) ==
    IF f = "truth.py"
    THEN { << 1076 >>, << 1076, 1072 >>, << 121 >>, << 121, 101, 115 >> }
    ELSE { << 111 >>, << 111, 117, 105 >>, << 121 >>, << 121, 101, 115 >> }

\* all(part.isdigit() for part in parts), parts = entree.split('.')
all_isdigit(parts) == \A i \in 1..Len(parts) : isdigit(parts[i])

\* analyser_mot_cyrillique under the environment's fault
analyser_sous_faute(f, mot, faute) ==
    IF faute = "MemoryError" THEN Raise(faute)
    ELSE analyser_mot_cyrillique(f, mot)

\* the branch of a numeric sequence, mot_decode the decoder's return
voie_sequence(f, mot_decode, faute) ==
    IF mot_decode.exc # ""
    THEN [voie |-> "sequence", results |-> Raise(mot_decode.exc),
          sortie |-> << >>]
    ELSE [voie |-> "sequence",
          results |-> analyser_sous_faute(f, mot_decode.val, faute),
          sortie |-> << "decodee" >>]

\* the branch of a word
voie_mot(f, e, faute) ==
    [voie |-> "mot", results |-> analyser_sous_faute(f, e, faute),
     sortie |-> << >>]

analyser_entree_sans_point(f, e, faute) ==
    IF all_isdigit(split(e, << >>))
    THEN voie_sequence(f, decoder_sequence_cyrillique(e), faute)
    ELSE voie_mot(f, e, faute)

\* the if / else that both entry points run on the trimmed input
analyser_entree(f, e, faute) ==
    IF contains_dot(e) /\ all_isdigit(split(e, << >>))
    THEN voie_sequence(f, decoder_sequence_cyrillique(e), faute)
    ELSE voie_mot(f, e, faute)

\* the rest of the try of main() and its handler, a the analysis of e
main_suite(e, a, faute) ==
    IF a.results.exc # ""
    THEN [pc |-> "termine", voie |-> a.voie,
          results |-> a.results, sortie |-> a.sortie \o << "erreur" >>,
          exception |-> a.results.exc, code_sortie |-> 1]
    ELSE IF faute = "rendu"
    THEN [pc |-> "termine", voie |-> a.voie,
          results |-> a.results, sortie |-> a.sortie \o << "erreur" >>,
          exception |-> "OSError", code_sortie |-> 1]
    ELSE [pc |-> "termine", voie |-> a.voie,
          results |-> a.results,
          sortie |-> a.sortie \o << "rapport", "table" >>,
          exception |-> "", code_sortie |-> 0]

main_sans_exit(f, args, faute) ==
    IF Len(args) # 1
    THEN [pc |-> "termine", voie |-> "aucune",
          results |-> Aucun, sortie |-> << "usage" >>, exception |-> "",
          code_sortie |-> 1]
    ELSE [main_suite(strip(args[1]),
                     analyser_entree(f, strip(args[1]), faute), faute)
          EXCEPT !.code_sortie = 0]

\* main(): the state the process ends in.  except Exception does not catch
\* KeyboardInterrupt: the interpreter prints the traceback and the process
\* ends on SIGINT (status 130)
main(f, args, faute) ==
    IF Len(args) # 1
    THEN [pc |-> "termine", voie |-> "aucune",
          results |-> Aucun, sortie |-> << "usage" >>, exception |-> "",
          code_sortie |-> 1]
    ELSE IF faute = "KeyboardInterrupt"
    THEN [pc |-> "termine", voie |-> "aucune",
          results |-> Aucun, sortie |-> << "traceback" >>,
          exception |-> faute, code_sortie |-> 130]
    ELSE main_suite(strip(args[1]),
                    analyser_entree(f, strip(args[1]), faute), faute)

\* the end of an iteration that analysed its input, a the analysis
iteration_suite(a) ==
    IF a.results.exc # ""
    THEN [pc |-> "prompt", voie |-> a.voie, results |-> a.results,
          sortie |-> a.sortie \o << "erreur" >>,
          exception |-> a.results.exc, code_sortie |-> -1]
    ELSE [pc |-> "voir_complet", voie |-> a.voie, results |-> a.results,
          sortie |-> a.sortie \o << "resume" >>, exception |-> "",
          code_sortie |-> -1]

iteration_sans_except(f, e, faute) ==
    IF faute = "KeyboardInterrupt"
    THEN [pc |-> "termine", voie |-> "aucune", results |-> Aucun,
          sortie |-> << "adieu" >>, exception |-> faute, code_sortie |-> 0]
    ELSE IF lower(e) = QUIT
    THEN [pc |-> "termine", voie |-> "commande", results |-> Aucun,
          sortie |-> << "adieu" >>, exception |-> "", code_sortie |-> 0]
    ELSE IF lower(e) = TABLE
    THEN [pc |-> "prompt", voie |-> "commande", results |-> Aucun,
          sortie |-> << "table" >>, exception |-> "", code_sortie |-> -1]
    ELSE IF e = << >>
    THEN [pc |-> "prompt", voie |-> "vide", results |-> Aucun,
          sortie |-> << >>, exception |-> "", code_sortie |-> -1]
    ELSE [iteration_suite(analyser_entree(f, e, faute))
          EXCEPT !.pc = IF @ = "prompt" THEN "termine" ELSE @]

\* the body of the while loop of interface_interactive, from the trimmed
\* input to the second input() or to the end of the iteration
iteration(f, e, faute) ==
    IF faute = "KeyboardInterrupt"
    THEN [pc |-> "termine", voie |-> "aucune", results |-> Aucun,
          sortie |-> << "adieu" >>, exception |-> faute, code_sortie |-> 0]
    ELSE IF lower(e) = QUIT
    THEN [pc |-> "termine", voie |-> "commande", results |-> Aucun,
          sortie |-> << "adieu" >>, exception |-> "", code_sortie |-> 0]
    ELSE IF lower(e) = TABLE
    THEN [pc |-> "prompt", voie |-> "commande", results |-> Aucun,
          sortie |-> << "table" >>, exception |-> "", code_sortie |-> -1]
    ELSE IF e = << >>
    THEN [pc |-> "prompt", voie |-> "vide", results |-> Aucun,
          sortie |-> << >>, exception |-> "", code_sortie |-> -1]
    ELSE iteration_suite(analyser_entree(f, e, faute))

(***************************************************************************)
(* Inputs.                                                                 *)
(***************************************************************************)
Fichiers == { "truth.py", "Truth.py" }

\* the strings of length at most n over the characters C
Chaines(C, n) == UNION { [1..k -> C] : k \in 0..n }

PRIVET == << 1055, 1056, 1048, 1042, 1045, 1058 >>
PRIVET_SEQUENCE ==
    << 49, 55, 46, 49, 56, 46, 49, 48, 46, 51, 46, 54, 46, 50, 48 >>
DOD == << 1044, 1054, 1044 >>

\* '1', '.', PE, superscript two, ' '
CaracteresEntree == { 49, 46, 1055, 178, 32 }

\* "17", "QUIT", " Table ", ..., "0.34.07.x"
Entrees ==
    Chaines(CaracteresEntree, MaxEntree)
    \cup { QUIT, upper(QUIT), TABLE, << 32 >> \o upper(TABLE) \o << 32 >>,
           PRIVET, PRIVET_SEQUENCE, << 49, 55 >>,
           << 48, 46, 51, 52, 46, 48, 55 >> }

\* sys.argv[1:]: nothing, one argument, too many
Arguments == { << >> } \cup { << e >> : e \in Entrees } \cup { << QUIT, TABLE >> }

\* answers to the second prompt: "y", "n", " Y ", "д", "o"
Reponses == { << 121 >>, << 110 >>, << 32, 89, 32 >>, << 1076 >>, << 111 >> }

\* PE, small yo, ' ', tab
CaracteresMot == { 1055, 1105, 32, 9 }

\* "Дод", "д о Д", E acute, "a1!", PE 'a', "привет", DJE (U+0402), "é b"
Mots ==
    Chaines(CaracteresMot, MaxMot)
    \cup { PRIVET, lower(PRIVET), DOD, << 1044, 1086, 1076 >>,
           << 1076, 32, 1086, 32, 1044 >>, << 201 >>, << 97, 49, 33 >>,
           << 1055, 97 >>, << 1026 >>, << 233, 32, 98 >> }

\* integers as limbs: the small ones, and a grid around 2^16, 2^24 and 2^32
Grands ==
    { en_grand(k) : k \in (0 - MaxNegatif)..MaxNombre }
    \cup ({ -2, 1, 255, 256, 258, 49320, 65535, 65536, 65537 }
          \X { 0, 1, 255, 256, 772, 65535 })

petit(n) == n[1] \in { -1, 0 }
valeur(n) == n[1] * 65536 + n[2]

(***************************************************************************)
(* The program: python truth.py [argument].                                *)
(***************************************************************************)
Init ==
    /\ fichier \in Fichiers
    /\ argv \in Arguments
    /\ pc = "debut"
    /\ entree = << >>
    /\ results = Aucun
    /\ voie = "aucune"
    /\ sortie = << >>
    /\ exception = ""
    /\ code_sortie = -1
    /\ precedent = Aucun
    /\ nombre = << 0, 0 >>
    /\ retours = Aucun

hors_programme == << precedent, nombre, retours >>

\* the locals and the output take the values an entry point computed
Devenir(r) ==
    /\ pc' = r.pc
    /\ voie' = r.voie
    /\ results' = r.results
    /\ sortie' = r.sortie
    /\ exception' = r.exception
    /\ code_sortie' = r.code_sortie

\* len(sys.argv) != 1: main() runs to the end of the process
LancerMain(faute) ==
    /\ pc = "debut"
    /\ Len(argv) >= 1
    /\ entree' = IF Len(argv) = 1 THEN strip(argv[1]) ELSE entree
    /\ Devenir(main(fichier, argv, faute))
    /\ UNCHANGED << fichier, argv, hors_programme >>

\* len(sys.argv) == 1: interface_interactive() prints its banner
LancerInteractif ==
    /\ pc = "debut"
    /\ Len(argv) = 0
    /\ pc' = "prompt"
    /\ sortie' = << "banniere" >>
    /\ UNCHANGED << fichier, argv, entree, results, voie, exception,
                    code_sortie, hors_programme >>

\* the first input() returns a line: a new iteration starts
Lire(ligne) ==
    /\ pc = "prompt"
    /\ pc' = "lu"
    /\ entree' = strip(ligne)
    /\ results' = Aucun
    /\ voie' = "aucune"
    /\ sortie' = << >>
    /\ exception' = ""
    /\ UNCHANGED << fichier, argv, code_sortie, hors_programme >>

\* input() raises EOFError, an Exception: the handler prints the error line
FinDeFlux ==
    /\ pc \in { "prompt", "voir_complet" }
    /\ pc' = "prompt"
    /\ sortie' = (IF pc = "prompt" THEN << >> ELSE sortie) \o << "erreur" >>
    /\ exception' = "EOFError"
    /\ UNCHANGED << fichier, argv, entree, results, voie, code_sortie,
                    hors_programme >>

\* input() raises KeyboardInterrupt: the handler says goodbye and breaks
Interruption ==
    /\ pc \in { "prompt", "voir_complet" }
    /\ pc' = "termine"
    /\ sortie' = (IF pc = "prompt" THEN << >> ELSE sortie) \o << "adieu" >>
    /\ exception' = "KeyboardInterrupt"
    /\ code_sortie' = 0
    /\ UNCHANGED << fichier, argv, entree, results, voie, hors_programme >>

\* the rest of the iteration, up to the second input()
Traiter(faute) ==
    /\ pc = "lu"
    /\ Devenir(iteration(fichier, entree, faute))
    /\ UNCHANGED << fichier, argv, entree, hors_programme >>

\* the second input() returns: the full report on a yes
Repondre(reponse, faute) ==
    /\ pc = "voir_complet"
    /\ pc' = "prompt"
    /\ IF lower(strip(reponse)) \in reponses_oui(fichier)
       THEN IF faute = "rendu"
            THEN /\ sortie' = sortie \o << "erreur" >>
                 /\ exception' = "OSError"
            ELSE /\ sortie' = sortie \o << "rapport" >>
                 /\ exception' = ""
       ELSE UNCHANGED << sortie, exception >>
    /\ UNCHANGED << fichier, argv, entree, results, voie, code_sortie,
                    hors_programme >>

Next ==
    \/ \E faute \in { "", "MemoryError", "rendu", "KeyboardInterrupt" } :
           LancerMain(faute)
    \/ LancerInteractif
    \/ \E ligne \in Entrees : Lire(ligne)
    \/ FinDeFlux
    \/ Interruption
    \/ \E faute \in { "", "MemoryError", "KeyboardInterrupt" } : Traiter(faute)
    \/ \E reponse \in Reponses, faute \in { "", "rendu" } : Repondre(reponse, faute)

Spec == Init /\ [][Next]_vars

(***************************************************************************)
(* The codec and the text inspector on one word after another: each word   *)
(* is the one before it with the case of one letter changed, or with one   *)
(* whitespace character put in or taken out.                               *)
(***************************************************************************)
\* the other case of a character (the character itself if it has none)
autre_casse(c) == IF upper_char(c) # c THEN upper_char(c) ELSE lower_char(c)

inserer(mot, i, c) == SubSeq(mot, 1, i) \o << c >> \o SubSeq(mot, i + 1, Len(mot))

retirer(mot, i) == SubSeq(mot, 1, i - 1) \o SubSeq(mot, i + 1, Len(mot))

InitCodec ==
    /\ fichier \in Fichiers
    /\ argv = << >>
    /\ pc = "mot_donne"
    /\ entree \in Mots
    /\ results = Aucun
    /\ voie = "aucune"
    /\ sortie = << >>
    /\ exception = ""
    /\ code_sortie = -1
    /\ precedent = [edition |-> "aucune", rapport |-> Aucun]
    /\ nombre = << 0, 0 >>
    /\ retours = Aucun

hors_codec == << fichier, argv, voie, sortie, exception, code_sortie, nombre,
                 retours >>

\* analyser_mot_cyrillique(entree)
AnalyserMot ==
    /\ pc = "mot_donne"
    /\ pc' = "mot_analyse"
    /\ results' = analyser_mot_cyrillique(fichier, entree)
    /\ UNCHANGED << entree, precedent, hors_codec >>

\* the next word, and its analysis
Suivant(mot, edition) ==
    /\ pc = "mot_analyse"
    /\ entree' = mot
    /\ precedent' = [edition |-> edition, rapport |-> results]
    /\ results' = analyser_mot_cyrillique(fichier, mot)
    /\ UNCHANGED << pc, hors_codec >>

ChangerCasse ==
    \E i \in 1..Len(entree) :
        /\ autre_casse(entree[i]) # entree[i]
        /\ Suivant([entree EXCEPT ![i] = autre_casse(entree[i])], "casse")

InsererBlanc ==
    \E i \in 0..Len(entree), c \in { 32, 9 } :
        /\ Len(entree) < MaxMot
        /\ Suivant(inserer(entree, i, c), IF c = 32 THEN "espace" ELSE "blanc")

RetirerBlanc ==
    \E i \in 1..Len(entree) :
        /\ isspace(entree[i])
        /\ Suivant(retirer(entree, i), IF entree[i] = 32 THEN "espace" ELSE "blanc")

NextCodec == AnalyserMot \/ ChangerCasse \/ InsererBlanc \/ RetirerBlanc

SpecCodec == InitCodec /\ [][NextCodec]_vars

(***************************************************************************)
(* The numeric functions on one integer.                                   *)
(***************************************************************************)
InitNombre ==
    /\ fichier \in Fichiers
    /\ argv = << >>
    /\ pc = "nombre_donne"
    /\ entree = << >>
    /\ results = Aucun
    /\ voie = "aucune"
    /\ sortie = << >>
    /\ exception = ""
    /\ code_sortie = -1
    /\ precedent = Aucun
    /\ nombre \in Grands
    /\ retours = Aucun

hors_nombre == << fichier, argv, entree, voie, sortie, exception, code_sortie,
                  precedent, nombre >>

\* analyser_nombre(nombre), which the scripts call on a sum of codes
AnalyserNombre ==
    /\ pc = "nombre_donne"
    /\ petit(nombre) /\ valeur(nombre) >= 0
    /\ pc' = "nombre_analyse"
    /\ results' = analyser_nombre(fichier, valeur(nombre))
    /\ UNCHANGED << retours, hors_nombre >>

\* factorize, is_prime, is_fibonacci and find_previous_primes called directly
AppelerArithmetique ==
    /\ pc = "nombre_donne"
    /\ petit(nombre)
    /\ pc' = "arithmetique"
    /\ retours' = [ factorize            |-> factorize(valeur(nombre)),
                    is_prime             |-> is_prime(valeur(nombre)),
                    is_fibonacci         |-> is_fibonacci(valeur(nombre)),
                    find_previous_primes |->
                        [count \in 0..MaxCount |->
                            find_previous_primes(valeur(nombre), count)] ]
    /\ UNCHANGED << results, hors_nombre >>

\* number_to_ipv4 called directly
AppelerIPv4 ==
    /\ pc = "nombre_donne"
    /\ pc' = "ipv4"
    /\ retours' = [ number_to_ipv4 |-> number_to_ipv4(nombre) ]
    /\ UNCHANGED << results, hors_nombre >>

\* the colour entries of analyser_nombre of src/truth.py, on the numbers
\* whose square and cube are beyond the integers of the checker
AppelerCouleur ==
    /\ pc = "nombre_donne"
    /\ fichier = "truth.py"
    /\ nombre[1] \in 0..MaxHaut
    /\ pc' = "couleur"
    /\ retours' = couleur(hexadecimal(valeur(nombre)))
    /\ UNCHANGED << results, hors_nombre >>

NextNombre ==
    AnalyserNombre \/ AppelerArithmetique \/ AppelerIPv4 \/ AppelerCouleur

SpecNombre == InitNombre /\ [][NextNombre]_vars

(***************************************************************************)
(* Properties of the codec and of the text inspector (SpecCodec).          *)
(***************************************************************************)
\* the primary alphabet, upper and lower case
AlphabetPrimaire == (1040..1103) \cup { 1025, 1105 }

\* the upper case of a primary-alphabet symbol
MajusculePrimaire(c) ==
    IF c \in 1072..1103 THEN c - 32 ELSE IF c = 1105 THEN 1025 ELSE c

MotPrimaire(mot) == \A i \in 1..Len(mot) : mot[i] \in AlphabetPrimaire

\* C1: for every word w made of primary-alphabet symbols of either case,
\* decoding the encoding of w gives w in upper case.
C1_AllerRetour ==
    (pc = "mot_analyse" /\ MotPrimaire(entree)) =>
        /\ results.exc = ""
        /\ results.val.mot_decode
               = [i \in 1..Len(entree) |-> MajusculePrimaire(entree[i])]

\* a word of lower-case and upper-case primary symbols, small yo among them
C1_Temoin ==
    /\ pc = "mot_analyse"
    /\ MotPrimaire(entree)
    /\ Len(entree) >= 2
    /\ \E i, j \in 1..Len(entree) : entree[i] = 1105 /\ entree[j] = 1055

\* C2: PRIVET encodes to "17.18.10.3.6.20", its aggregate value is 74 and
\* the sequence decodes back to PRIVET; the table maps the 33 symbols one to
\* one onto 1..33 and ALPHABET_INVERSE is its inverse.
C2_Privet ==
    /\ (pc = "mot_analyse" /\ entree = PRIVET) =>
           /\ results.val.sequence_cyrillique = PRIVET_SEQUENCE
           /\ results.val.valeur_numerique = 74
           /\ results.val.mot_decode = PRIVET
    /\ Cardinality(DOMAIN ALPHABET_CYRILLIQUE) = 33
    /\ { ALPHABET_CYRILLIQUE[c] : c \in DOMAIN ALPHABET_CYRILLIQUE } = 1..33
    /\ DOMAIN ALPHABET_INVERSE = 1..33
    /\ \A c \in DOMAIN ALPHABET_CYRILLIQUE :
           ALPHABET_INVERSE[ALPHABET_CYRILLIQUE[c]] = c
    /\ \A v \in 1..33 : ALPHABET_CYRILLIQUE[ALPHABET_INVERSE[v]] = v

C2_Temoin == pc = "mot_analyse" /\ entree = PRIVET /\ results.exc = ""

\* C3: two words that differ only in the case of letters and in whitespace
\* (leading, trailing or interior) have the same aggregate value: the value
\* of a word is the value of the word it was made from by one such change.
C3_ValeurInvariante ==
    precedent.edition # "aucune" =>
        results.val.valeur_numerique = precedent.rapport.val.valeur_numerique

\* an interior tab was put into, or taken out of, a word of value > 0
C3_Temoin ==
    /\ precedent.edition = "blanc"
    /\ results.val.valeur_numerique > 0
    /\ Len(entree) = 3
    /\ entree[2] = 9

\* C8: est_palindrome(word) is true exactly when the word in upper case,
\* without its spaces, reads the same in both directions; it is true of
\* DOD and of the empty word, and it does not change when a letter changes
\* case or a space is put in or taken out.
C8_Palindrome ==
    pc = "mot_analyse" =>
        LET m == SelectSeq(results.val.mot_majuscules, LAMBDA c : c # 32) IN
        /\ results.val.est_palindrome
               = (\A i \in 1..Len(m) : m[i] = m[Len(m) + 1 - i])
        /\ entree \in { DOD, << >> } => results.val.est_palindrome
        /\ precedent.edition \in { "casse", "espace" } =>
               results.val.est_palindrome
                   = precedent.rapport.val.est_palindrome

\* "д о Д": a palindrome up to case and spaces
C8_Temoin ==
    /\ pc = "mot_analyse"
    /\ entree = << 1076, 32, 1086, 32, 1044 >>
    /\ results.val.est_palindrome

(***************************************************************************)
(* Properties of the numeric functions (SpecNombre).                       *)
(***************************************************************************)
\* C4: for n >= 0, is_prime(n) is true if and only if factorize(n) has
\* exactly one element, that element is n, and n >= 2; is_prime(0) and
\* is_prime(1) are false although factorize returns [0] and [1].
C4_PremierSsiUnFacteur ==
    (pc = "arithmetique" /\ valeur(nombre) >= 0) =>
        /\ retours.is_prime
               = (/\ Len(retours.factorize) = 1
                  /\ retours.factorize[1] = valeur(nombre)
                  /\ valeur(nombre) >= 2)
        /\ valeur(nombre) \in { 0, 1 } =>
               /\ ~retours.is_prime
               /\ retours.factorize = << valeur(nombre) >>

\* a prime above 100
C4_Temoin ==
    /\ pc = "arithmetique"
    /\ valeur(nombre) > 100
    /\ retours.is_prime
    /\ retours.factorize = << valeur(nombre) >>

\* the Fibonacci numbers up to borne, from the recurrence
RECURSIVE SuiteFibonacci(_, _, _)
SuiteFibonacci(a, b, borne) ==
    IF a > borne THEN {} ELSE { a } \cup SuiteFibonacci(b, a + b, borne)

\* C5: is_fibonacci(n) returns true exactly for the members of the
\* sequence 0, 1, 1, 2, 3, 5, 8, ..., false for every other n including
\* the negative ones, and never raises (n = 0 and n = 1 included).
C5_Fibonacci ==
    pc = "arithmetique" =>
        /\ retours.is_fibonacci.exc = ""
        /\ retours.is_fibonacci.val
               = (valeur(nombre) \in SuiteFibonacci(0, 1, valeur(nombre)))

\* n = 0, where 5*n*n - 4 is negative
C5_Temoin ==
    /\ pc = "arithmetique"
    /\ valeur(nombre) = 0
    /\ retours.is_fibonacci = Ok(TRUE)

\* the decimal digits of a byte
Octet(b) ==
    IF b >= 100
    THEN << 48 + (b \div 100), 48 + ((b \div 10) % 10), 48 + (b % 10) >>
    ELSE IF b >= 10 THEN << 48 + (b \div 10), 48 + (b % 10) >>
    ELSE << 48 + b >>

\* C6: number_to_ipv4(n) is the dotted quad of the four bytes of n, most
\* significant first, for 0 <= n <= 0xFFFFFFFF ("0.0.0.0" for 0,
\* "255.255.255.255" for 4294967295), and the invalid-address string for
\* every other n (4294967296 and above, or negative).
C6_IPv4 ==
    pc = "ipv4" =>
        /\ retours.number_to_ipv4
               = IF nombre[1] >= 0 /\ nombre[1] <= 65535
                 THEN Octet(nombre[1] \div 256) \o << 46 >>
                      \o Octet(nombre[1] % 256) \o << 46 >>
                      \o Octet(nombre[2] \div 256) \o << 46 >>
                      \o Octet(nombre[2] % 256)
                 ELSE INVALID_IPV4
        /\ nombre = << 0, 0 >> =>
               retours.number_to_ipv4 = << 48, 46, 48, 46, 48, 46, 48 >>
        /\ nombre = << 65535, 65535 >> =>
               retours.number_to_ipv4
                   = << 50, 53, 53, 46, 50, 53, 53, 46, 50, 53, 53, 46, 50,
                        53, 53 >>
        /\ nombre = << 65536, 0 >> => retours.number_to_ipv4 = INVALID_IPV4

\* n = 4294967295, the largest address
C6_Temoin ==
    /\ pc = "ipv4"
    /\ nombre = << 65535, 65535 >>
    /\ retours.number_to_ipv4 # INVALID_IPV4

\* the value of the digits s in base b; -1 unless every digit is one of
\* 0-9, A-F below b
RECURSIVE ValeurEnBase(_, _)
ValeurEnBase(s, b) ==
    IF s = << >> THEN 0
    ELSE LET c == s[Len(s)]
             v == IF c \in 48..57 THEN c - 48
                  ELSE IF c \in 65..70 THEN c - 55 ELSE b
             debut == ValeurEnBase(SubSeq(s, 1, Len(s) - 1), b)
         IN IF v >= b \/ debut < 0 THEN -1 ELSE debut * b + v

\* s is the base-b notation of n: its digits, no prefix, no leading zero
EcritEnBase(s, b, n) ==
    /\ Len(s) >= 1
    /\ ValeurEnBase(s, b) = n
    /\ Len(s) > 1 => s[1] # 48

BasesDe74 ==
    /\ results.val.hexadecimal = << 52, 65 >>
    /\ results.val.binary = << 49, 48, 48, 49, 48, 49, 48 >>

Bases ==
    /\ results.exc = ""
    /\ results.val.decimal = valeur(nombre)
    /\ EcritEnBase(results.val.hexadecimal, 16, valeur(nombre))
    /\ EcritEnBase(results.val.binary, 2, valeur(nombre))
    /\ EcritEnBase(results.val.octal, 8, valeur(nombre))
    /\ valeur(nombre) = 74 => BasesDe74

\* "Odd" when n is odd, "Even" when it is even
PariteSimple(n) ==
    IF n % 2 = 1 THEN << 79, 100, 100 >> ELSE << 69, 118, 101, 110 >>

\* C7 as stated: in both scripts analyser_nombre(n) reports the hexadecimal
\* (upper case), binary and octal digits of n without prefix, and 'parity'
\* as exactly "Odd" or "Even".
C7_PariteExacte ==
    pc = "nombre_analyse" =>
        /\ Bases
        /\ results.val.parity = PariteSimple(valeur(nombre))

\* C7, amended: the digits are as stated in both scripts; 'parity' is
\* exactly "Odd" / "Even" in Truth.py, and in truth.py it is the bilingual
\* label that ends in "(Odd)" for an odd n and in "(Even)" for an even n.
C7_PariteParScript ==
    pc = "nombre_analyse" =>
        /\ Bases
        /\ results.val.parity
               = IF fichier = "Truth.py" THEN PariteSimple(valeur(nombre))
                 ELSE IF valeur(nombre) % 2 = 1
                 THEN << 1053, 1077, 1095, 1077, 1090, 1085, 1086, 1077, 32,
                         40 >> \o PariteSimple(valeur(nombre)) \o << 41 >>
                 ELSE << 1063, 1077, 1090, 1085, 1086, 1077, 32, 40 >>
                      \o PariteSimple(valeur(nombre)) \o << 41 >>

\* truth.py on 74
C7_Temoin ==
    /\ pc = "nombre_analyse"
    /\ fichier = "truth.py"
    /\ valeur(nombre) = 74
    /\ BasesDe74

(***************************************************************************)
(* Claims about the two entry points, checked under Spec.                  *)
(***************************************************************************)
\* every character is a digit or a dot, and no token between dots is empty
JetonsTousChiffres(e) ==
    /\ e # << >>
    /\ \A i \in 1..Len(e) : isdigit_char(e[i]) \/ e[i] = 46
    /\ e[1] # 46
    /\ e[Len(e)] # 46
    /\ \A i \in 1..(Len(e) - 1) : ~(e[i] = 46 /\ e[i + 1] = 46)

UnPoint(e) == \E i \in 1..Len(e) : e[i] = 46

\* the inputs the interactive loop answers without analysing them
CommandeInteractive(e) == lower(e) \in { QUIT, TABLE } \/ e = << >>

\* C9 as stated: once an input has been dispatched, it went the way of a
\* numeric sequence if and only if every dot-separated token of the trimmed
\* input is made of digits only (a single all-digit token with no dot
\* included), and every other input went the way of a word.
C9_SequenceSsiJetonsChiffres ==
    voie # "aucune" =>
        /\ (voie = "sequence") <=> JetonsTousChiffres(entree)
        /\ ~JetonsTousChiffres(entree) => voie = "mot"

\* C9 amended: an input is decoded to a word before analysis if and only if
\* the trimmed input contains a dot and every dot-separated token is made of
\* digits only; every other input is analysed directly as a word, except
\* that the interactive loop analyses neither quit, table nor an empty line.
C9_SequenceSsiPointEtChiffres ==
    voie # "aucune" =>
        /\ (voie = "sequence") <=>
               (UnPoint(entree) /\ JetonsTousChiffres(entree))
        /\ (voie = "mot") <=>
               /\ ~(UnPoint(entree) /\ JetonsTousChiffres(entree))
               /\ ~(argv = << >> /\ CommandeInteractive(entree))
        /\ (voie = "sequence" /\ results.exc = "") =>
               results.val.mot_original =
                   decoder_sequence_cyrillique(entree).val
        /\ (voie = "mot" /\ results.exc = "") =>
               results.val.mot_original = entree

\* the interactive loop decoded 17.18.10.3.6.20 and analysed the word
C9_Temoin ==
    /\ argv = << >>
    /\ pc = "voir_complet"
    /\ voie = "sequence"
    /\ entree = PRIVET_SEQUENCE
    /\ results.exc = ""
    /\ results.val.mot_original = PRIVET

\* the error lines among the blocks printed
NbErreurs(blocs) == Cardinality({ i \in 1..Len(blocs) : blocs[i] = "erreur" })

\* C10 as stated: with an argument, any exception while decoding, analysing
\* or rendering yields exactly one error line and a non-zero exit status;
\* without one, an exception raised in an iteration yields one error line
\* and the loop is at its next prompt, not terminated.
C10_TouteException ==
    exception # "" =>
        IF Len(argv) >= 1
        THEN pc = "termine" /\ NbErreurs(sortie) = 1
             /\ code_sortie \notin { -1, 0 }
        ELSE pc = "prompt" /\ NbErreurs(sortie) = 1

\* C10 amended: the same of every exception derived from Exception; a
\* KeyboardInterrupt prints no error line and ends the process, with a
\* non-zero status in batch mode and after the goodbye line in the loop.
C10_ExceptionOrdinaire ==
    /\ exception \notin { "", "KeyboardInterrupt" } =>
           IF Len(argv) >= 1
           THEN pc = "termine" /\ NbErreurs(sortie) = 1
                /\ code_sortie \notin { -1, 0 }
           ELSE pc = "prompt" /\ NbErreurs(sortie) = 1
                /\ code_sortie = -1
    /\ exception = "KeyboardInterrupt" =>
           /\ pc = "termine"
           /\ NbErreurs(sortie) = 0
           /\ (Len(argv) >= 1) => code_sortie \notin { -1, 0 }
           /\ (Len(argv) = 0) => sortie[Len(sortie)] = "adieu"

\* the loop caught the ValueError of int() on a superscript digit
C10_Temoin ==
    /\ argv = << >>
    /\ pc = "prompt"
    /\ voie = "sequence"
    /\ exception = "ValueError"
    /\ sortie = << "erreur" >>

(***************************************************************************)
(* Properties of the encoder, the decoder and the aggregate value.         *)
(***************************************************************************)
\* the tokens of a dot-joined sequence (none for the empty sequence)
Jetons(sequence) == IF sequence = << >> THEN << >> ELSE split(sequence, << >>)

\* the basic Latin capitals A..Z
LatinDeBase(c) == c \in 65..90

\* the characters of a word, upper-cased and trimmed, that the codec knows
RECURSIVE LettresDuCodec(_)
LettresDuCodec(mot) ==
    IF mot = << >> THEN << >>
    ELSE (IF Head(mot) \in AlphabetPrimaire \/ LatinDeBase(Head(mot))
          THEN << Head(mot) >> ELSE << >>) \o LettresDuCodec(Tail(mot))

\* C11: every token of the encoded word is a decimal integer in 1..33 (a
\* primary code, or the position 1..26 of a basic Latin letter), and there
\* is one token per primary or basic Latin letter of the word and none for
\* any other character; the encoder raises nothing.
C11_JetonsDansLesPlages ==
    (pc = "mot_analyse" /\ results.exc = "") =>
        LET jetons == Jetons(results.val.sequence_cyrillique) IN
        /\ \A i \in 1..Len(jetons) :
               /\ int(jetons[i]).exc = ""
               /\ int(jetons[i]).val \in 1..33
        /\ Len(jetons) = Len(LettresDuCodec(strip(upper(entree))))

\* a token the decoder is to accept: decimal digits only, of value 1..33
JetonAccepte(jeton) ==
    /\ jeton # << >>
    /\ \A i \in 1..Len(jeton) : jeton[i] \in 48..57
    /\ ValeurEnBase(jeton, 10) \in 1..33

\* one primary symbol per accepted token, in token order
RECURSIVE DecodageAttendu(_)
DecodageAttendu(jetons) ==
    IF jetons = << >> THEN << >>
    ELSE (IF JetonAccepte(Head(jetons))
          THEN << ALPHABET_INVERSE[ValeurEnBase(Head(jetons), 10)] >>
          ELSE << >>) \o DecodageAttendu(Tail(jetons))

\* C12: the decoder returns, without error, one symbol per token whose
\* value is in 1..33, in token order, and skips every other token; seen
\* where an entry point decoded its input (the injected MemoryError of the
\* analysis apart).
C12_DecodageSansErreur ==
    (voie = "sequence" /\ results.exc # "MemoryError") =>
        /\ results.exc = ""
        /\ results.val.mot_original = DecodageAttendu(split(entree, << >>))

\* a letter of the Latin script, basic or accented (Latin-1)
LettreLatine(c) == c \in (65..90) \cup (97..122) \cup { 170, 186 }
                        \cup ((192..254) \ { 215, 247 })

ADesLatines(mot) == \E i \in 1..Len(mot) : LettreLatine(mot[i])

\* the sum of the primary codes of the primary upper-case symbols of a word
RECURSIVE SommePrimaire(_)
SommePrimaire(mot) ==
    IF mot = << >> THEN 0
    ELSE (IF Head(mot) \in (1040..1071) \cup { 1025 }
          THEN ALPHABET_CYRILLIQUE[Head(mot)] ELSE 0) + SommePrimaire(Tail(mot))

\* the sum of the tokens of an encoded word
RECURSIVE SommeJetons(_)
SommeJetons(jetons) ==
    IF jetons = << >> THEN 0
    ELSE int(Head(jetons)).val + SommeJetons(Tail(jetons))

\* C13: the aggregate value of a word is the sum of the primary codes of
\* the primary symbols of the upper-cased word; it equals the sum of the
\* encoded tokens when the word has no Latin letter and is strictly smaller
\* when it has one.
C13_ValeurEtJetons ==
    (pc = "mot_analyse" /\ results.exc = "") =>
        LET somme == SommeJetons(Jetons(results.val.sequence_cyrillique)) IN
        /\ results.val.valeur_numerique = SommePrimaire(upper(entree))
        /\ ~ADesLatines(entree) => results.val.valeur_numerique = somme
        /\ ADesLatines(entree) => results.val.valeur_numerique < somme

(***************************************************************************)
(* Properties of factorize and find_previous_primes (SpecNombre).          *)
(***************************************************************************)
\* p is prime, by definition
Premier(p) == p >= 2 /\ \A d \in 2..(p - 1) : p % d # 0

RECURSIVE Produit(_)
Produit(facteurs) ==
    IF facteurs = << >> THEN 1 ELSE Head(facteurs) * Produit(Tail(facteurs))

\* C14: for n >= 2 factorize(n) is a non-empty, non-decreasing list of
\* primes whose product is n (factorize(74) = [2, 37]); for n < 2 it is
\* the one-element list [n].
C14_Factorisation ==
    pc = "arithmetique" =>
        LET n == valeur(nombre)
            f == retours.factorize
        IN /\ n >= 2 =>
                  /\ f # << >>
                  /\ \A i \in 1..Len(f) : Premier(f[i])
                  /\ \A i \in 1..(Len(f) - 1) : f[i] <= f[i + 1]
                  /\ Produit(f) = n
           /\ n < 2 => f = << n >>
           /\ n = 74 => f = << 2, 37 >>

\* 72 = 2 * 2 * 2 * 3 * 3: primes repeated with their multiplicity
C14_Temoin ==
    /\ pc = "arithmetique"
    /\ valeur(nombre) = 72
    /\ retours.factorize = << 2, 2, 2, 3, 3 >>

\* C15: for n >= 0 and count >= 0, find_previous_primes(n, count) is a
\* strictly decreasing list of at most count primes below n, and they are
\* exactly the min(count, number of primes below n) largest primes below n.
C15_PremiersPrecedents ==
    (pc = "arithmetique" /\ valeur(nombre) >= 0) =>
        LET n == valeur(nombre)
            sous_n == { p \in 2..(n - 1) : Premier(p) }
        IN \A count \in DOMAIN retours.find_previous_primes :
               LET r == retours.find_previous_primes[count] IN
               /\ Len(r) <= count
               /\ \A i \in 1..(Len(r) - 1) : r[i] > r[i + 1]
               /\ { r[i] : i \in 1..Len(r) }
                      = { p \in sous_n :
                            Cardinality({ q \in sous_n : q > p }) < count }
               /\ Len(r) = IF Cardinality(sous_n) < count
                           THEN Cardinality(sous_n) ELSE count

\* only two primes lie below 4: fewer entries than the count asked for
C15_Temoin ==
    /\ pc = "arithmetique"
    /\ valeur(nombre) = 4
    /\ retours.find_previous_primes[3] = << 3, 2 >>
    /\ retours.find_previous_primes[0] = << >>

(***************************************************************************)
(* Properties of the colour entries (SpecNombre).                          *)
(***************************************************************************)
\* C16: for every n >= 0, color_hex is '#' followed by exactly six
\* hexadecimal digits, and rgb is three bytes with r*65536 + g*256 + b
\* equal to the value of those six digits.
C16_CouleurSixChiffres ==
    pc = "couleur" =>
        LET six == SubSeq(retours.color_hex, 2, Len(retours.color_hex))
            rgb == retours.rgb
        IN /\ retours.color_hex[1] = 35
           /\ Len(six) = 6
           /\ ValeurEnBase(six, 16) >= 0
           /\ \A i \in 1..3 : rgb[i] \in 0..255
           /\ rgb[1] * 65536 + rgb[2] * 256 + rgb[3] = ValeurEnBase(six, 16)

(***************************************************************************)
(* The end of the interactive loop (Spec).                                 *)
(***************************************************************************)
\* C17: a step of the interactive loop ends the loop only on the input
\* quit (in any letter case) or on a KeyboardInterrupt; every other step
\* (table, an empty line, an analysis, an analysis error, the end of the
\* input stream) leaves the loop at one of its two input() calls, and the
\* end of the input stream leaves it at the first prompt.
C17_FinDeBoucle ==
    [][ (Len(argv) = 0 /\ pc \in { "prompt", "lu", "voir_complet" }) =>
            IF pc' = "termine"
            THEN \/ exception' = "KeyboardInterrupt"
                 \/ pc = "lu" /\ lower(entree) = QUIT
            ELSE /\ pc' \in { "prompt", "lu", "voir_complet" }
                 /\ pc = "lu" => pc' \in { "prompt", "voir_complet" }
                 /\ (pc = "lu" /\ (lower(entree) = TABLE \/ entree = << >>
                                     \/ exception' # "")) => pc' = "prompt"
                 /\ pc = "voir_complet" => pc' = "prompt"
                 /\ exception' = "EOFError" => pc' = "prompt" ]_vars

\* the input stream has ended and the loop is back at its prompt
C17_Temoin ==
    /\ argv = << >>
    /\ pc = "prompt"
    /\ exception = "EOFError"
    /\ sortie = << "erreur" >>

=============================================================================
